---- MODULE Spec2Model ----
(***************************************************************************)
(* A model of the news_scraper repository.                                 *)
(*                                                                         *)
(*   scraper.py      the Ingestor: NotionNewsAggregator.run fetches every  *)
(*                   feed, then passes every article through               *)
(*                   article_exists (the deduplication gate) and           *)
(*                   notion.pages.create (the store's create).             *)
(*   ai_digest.py    the digest run: window query, grouping by source,     *)
(*                   AI summaries, hot topics, the digest page.            *)
(*   news_digest.py  the plain digest: window query,                       *)
(*                   create_summary_by_source, the digest page.            *)
(*                                                                         *)
(* Text is modelled as a sequence of one-character strings, so that        *)
(* lower(), strip(), slicing and the token regular expression are          *)
(* computed character by character.                                        *)
(***************************************************************************)
EXTENDS Integers, Sequences, FiniteSets, TLC

VARIABLES
    \* ---- scraper.py ----
    feeds,             \* what each configured feed serves: a sequence of entry lists
    store,             \* the Notion database: number of pages per URL
    initStore,         \* the store as it was before the runs started (never changes)
    pc,                \* per run: "fetch", "gate", "create", "done"
    feedIdx,           \* per run: number of feeds fetched so far
    all_articles,      \* per run: run()'s all_articles (the URL of each article)
    artIdx,            \* per run: index of the article create_notion_page works on
    articles_added,    \* per run: self.articles_added
    articles_skipped,  \* per run: self.articles_skipped
    lastQuery,         \* per run: how the latest article_exists query ended
    fetchLog,          \* per run: outcome of each parse_rss_feed call, in order
    gated,             \* per run: the URLs handed to article_exists, in order
    anyFailure,        \* whether any query or write has failed so far
    \* ---- ai_digest.py, news_digest.py ----
    db,                \* the pages of the Notion database the digest reads
    now,               \* datetime.now(tz), in hours
    hot_topic_threshold, \* CONFIG['hot_topic_threshold']
    dpc,               \* where main() is: "query", "group", "summaries", "hot", "page", "done", "failed"
    queryStatus,       \* how the window query ended: "none", "ok", "error"
    articles,          \* main(): the pages the window query returned
    by_source,         \* main(): the groups, a dict in insertion order
    news_by_source,    \* news_digest.main(): create_summary_by_source(articles)
    sumIdx,            \* generate_ai_summary: the item of by_source the loop is at
    ai_summaries,      \* generate_ai_summary: summaries, a dict in insertion order
    calls,             \* the calls of openai.chat.completions.create, with their outcome
    hot_topics,        \* main(): the result of detect_hot_topics
    npc,               \* where news_digest.main() is: "idle", "query", "group", "page", "done", "failed"
    news_articles,     \* news_digest.main(): the pages its window query returned
    create_if_no_articles, \* news_digest: CONFIG['create_if_no_articles']
    children,          \* create_digest_page: the blocks handed to notion.pages.create
    creates,           \* ai_digest: how often notion.pages.create was invoked
    news_children,     \* news_digest.create_digest_page: the blocks handed to the create
    ncreates           \* news_digest: how often notion.pages.create was invoked

ingestVars == <<feeds, store, initStore, pc, feedIdx, all_articles, artIdx,
                articles_added, articles_skipped, lastQuery, fetchLog, gated,
                anyFailure>>

composeVars == <<news_articles, create_if_no_articles, children, creates,
                 news_children, ncreates>>

digestVars == <<db, now, hot_topic_threshold, dpc, queryStatus, articles, by_source,
                news_by_source, sumIdx, ai_summaries, calls, hot_topics, npc,
                composeVars>>

vars == <<ingestVars, digestVars>>

(***************************************************************************)
(* Bounds of the model.                                                    *)
(***************************************************************************)
NumFeeds == 2          \* feeds listed in sources.json
MaxEntries == 1        \* entries a feed serves
MaxInitial == 1        \* pages per URL in the store before a run starts

Runs == {1, 2}
Urls == {"", "A", "B"}
NoLink == "NoLink"              \* an entry without a 'link' field
NoFail == -1                    \* parse_rss_feed raised nothing

\* config.MAX_ARTICLES_PER_SOURCE
MAX_ARTICLES_PER_SOURCE == 10

Min(a, b) == IF a < b THEN a ELSE b
Max(a, b) == IF a > b THEN a ELSE b
Take(s, n) == SubSeq(s, 1, Min(n, Len(s)))

RECURSIVE SeqsUpTo(_, _)
SeqsUpTo(S, n) ==
    IF n = 0 THEN {<<>>}
    ELSE LET shorter == SeqsUpTo(S, n - 1)
         IN  shorter \cup {Append(s, x) : s \in {t \in shorter : Len(t) = n - 1}, x \in S}

Range(s) == {s[i] : i \in 1..Len(s)}

(***************************************************************************)
(* scraper.py                                                              *)
(***************************************************************************)

\* entry.get('link', ''): the URL an entry resolves to.
ResolveUrl(link) == IF link = NoLink THEN "" ELSE link

\* The places where parse_rss_feed can raise on a feed: in feedparser.parse (no
\* article appended yet) or while converting an entry (the ones before it are
\* appended already).
FailPoints(entries) ==
    0..Max(0, Min(Len(entries), MAX_ARTICLES_PER_SOURCE) - 1)

\* parse_rss_feed: the first MAX_ARTICLES_PER_SOURCE entries become articles, every
\* one of them (an entry without a link becomes an article with url ''). An
\* exception ends the loop and is printed; the articles appended before it are
\* returned. failAt is the number of articles appended before the exception,
\* NoFail when there is none.
parse_rss_feed(entries, failAt) ==
    LET slice == Take(entries, MAX_ARTICLES_PER_SOURCE)
        made  == [i \in 1..Len(slice) |-> ResolveUrl(slice[i])]
    IN  IF failAt = NoFail THEN made ELSE Take(made, failAt)

\* Mutants of article_exists: a gate that never finds a page; a gate that fails
\* closed (a failed query counts as "exists").
article_exists_never(url, queryFails) == FALSE
article_exists_closed(url, queryFails) ==
    IF queryFails THEN TRUE ELSE store[url] > 0

\* article_exists: the query's answer, False when the query raises.
article_exists(url, queryFails) ==
    IF queryFails THEN FALSE ELSE store[url] > 0

CurUrl(p) == all_articles[p][artIdx[p]]

\* After an article is dealt with: the for loop of run() takes the next one.
NextArticle(p) ==
    /\ artIdx' = [artIdx EXCEPT ![p] = @ + 1]
    /\ pc' = [pc EXCEPT ![p] = IF artIdx[p] < Len(all_articles[p]) THEN "gate" ELSE "done"]

\* Mutant of Fetch: a feed error ends the whole run.
FetchAborting(p, failAt) ==
    /\ pc[p] = "fetch"
    /\ feedIdx[p] < NumFeeds
    /\ failAt \in {NoFail} \cup FailPoints(feeds[feedIdx[p] + 1])
    /\ LET got == parse_rss_feed(feeds[feedIdx[p] + 1], failAt)
           all == all_articles[p] \o got
       IN  /\ all_articles' = [all_articles EXCEPT ![p] = all]
           /\ feedIdx' = [feedIdx EXCEPT ![p] = @ + 1]
           /\ fetchLog' = [fetchLog EXCEPT ![p] = Append(@, failAt)]
           /\ pc' = [pc EXCEPT ![p] =
                        IF failAt # NoFail THEN "done"
                        ELSE IF feedIdx[p] + 1 < NumFeeds THEN "fetch"
                        ELSE IF Len(all) = 0 THEN "done" ELSE "gate"]
    /\ UNCHANGED <<feeds, store, initStore, artIdx, articles_added, articles_skipped,
                   lastQuery, gated, anyFailure>>
    /\ UNCHANGED digestVars

\* run(), first loop: one call of parse_rss_feed, its articles appended to
\* all_articles. After the last feed the second loop starts.
Fetch(p, failAt) ==
    /\ pc[p] = "fetch"
    /\ feedIdx[p] < NumFeeds
    /\ failAt \in {NoFail} \cup FailPoints(feeds[feedIdx[p] + 1])
    /\ LET got == parse_rss_feed(feeds[feedIdx[p] + 1], failAt)
           all == all_articles[p] \o got
       IN  /\ all_articles' = [all_articles EXCEPT ![p] = all]
           /\ feedIdx' = [feedIdx EXCEPT ![p] = @ + 1]
           /\ fetchLog' = [fetchLog EXCEPT ![p] = Append(@, failAt)]
           /\ pc' = [pc EXCEPT ![p] =
                        IF feedIdx[p] + 1 < NumFeeds THEN "fetch"
                        ELSE IF Len(all) = 0 THEN "done" ELSE "gate"]
    /\ UNCHANGED <<feeds, store, initStore, artIdx, articles_added, articles_skipped,
                   lastQuery, gated, anyFailure>>
    /\ UNCHANGED digestVars

\* create_notion_page up to the answer of article_exists: a duplicate is counted
\* as skipped and the method returns; otherwise the page is built and created.
Gate(p, queryFails) ==
    /\ pc[p] = "gate"
    /\ gated' = [gated EXCEPT ![p] = Append(@, CurUrl(p))]
    /\ lastQuery' = [lastQuery EXCEPT ![p] = IF queryFails THEN "failed" ELSE "answered"]
    /\ anyFailure' = (anyFailure \/ queryFails)
    /\ IF article_exists(CurUrl(p), queryFails)
       THEN /\ articles_skipped' = [articles_skipped EXCEPT ![p] = @ + 1]
            /\ NextArticle(p)
       ELSE /\ pc' = [pc EXCEPT ![p] = "create"]
            /\ UNCHANGED <<articles_skipped, artIdx>>
    /\ UNCHANGED <<feeds, store, initStore, feedIdx, all_articles, articles_added,
                   fetchLog>>
    /\ UNCHANGED digestVars

\* Mutant of PageCreated: a database that keeps the URL unique.
PageCreatedUnique(url) == [store EXCEPT ![url] = Max(@, 1)]

\* The store after notion.pages.create returned for a page with this URL: one
\* more page, whatever the database holds already.
PageCreated(url) == [store EXCEPT ![url] = @ + 1]

\* create_notion_page from notion.pages.create on: a page is added and counted,
\* or the call raises and the exception is printed (no counter changes).
Create(p, writeFails) ==
    /\ pc[p] = "create"
    /\ anyFailure' = (anyFailure \/ writeFails)
    /\ IF writeFails
       THEN UNCHANGED <<store, articles_added>>
       ELSE /\ store' = PageCreated(CurUrl(p))
            /\ articles_added' = [articles_added EXCEPT ![p] = @ + 1]
    /\ NextArticle(p)
    /\ UNCHANGED <<feeds, initStore, feedIdx, all_articles, articles_skipped,
                   lastQuery, fetchLog, gated>>
    /\ UNCHANGED digestVars

\* No digest run is part of the behaviour.
DigestIdle ==
    /\ db = <<>>
    /\ now = 0
    /\ hot_topic_threshold = 0
    /\ dpc = "idle"
    /\ queryStatus = "none"
    /\ articles = <<>>
    /\ by_source = <<>>
    /\ news_by_source = <<>>
    /\ sumIdx = 0
    /\ ai_summaries = <<>>
    /\ calls = <<>>
    /\ hot_topics = <<>>
    /\ npc = "idle"
    /\ news_articles = <<>>
    /\ create_if_no_articles = FALSE
    /\ children = <<>>
    /\ creates = 0
    /\ news_children = <<>>
    /\ ncreates = 0

\* The state before any run: what the feeds serve (links drawn from `links`) and
\* what the database holds (pages for the URLs of `stored` only).
IngestInit(links, stored, maxInitial) ==
    /\ feeds \in [1..NumFeeds -> SeqsUpTo(links, MaxEntries)]
    /\ store \in {s \in [Urls -> 0..maxInitial] : \A u \in Urls \ stored : s[u] = 0}
    /\ initStore = store
    /\ pc = [p \in Runs |-> "fetch"]
    /\ feedIdx = [p \in Runs |-> 0]
    /\ all_articles = [p \in Runs |-> <<>>]
    /\ artIdx = [p \in Runs |-> 1]
    /\ articles_added = [p \in Runs |-> 0]
    /\ articles_skipped = [p \in Runs |-> 0]
    /\ lastQuery = [p \in Runs |-> "none"]
    /\ fetchLog = [p \in Runs |-> <<>>]
    /\ gated = [p \in Runs |-> <<>>]
    /\ anyFailure = FALSE
    /\ DigestIdle

AnyFailAt == {NoFail} \cup (0..MaxEntries)

(***************************************************************************)
(* Spec: one run of the scraper, every feed fetch, gate query and page     *)
(* create free to fail.                                                    *)
(***************************************************************************)
Init == IngestInit({NoLink, "A"}, {"", "A"}, MaxInitial)

FetchStep == \E failAt \in AnyFailAt : Fetch(1, failAt)
GateStep == \E queryFails \in BOOLEAN : Gate(1, queryFails)
CreateStep == \E writeFails \in BOOLEAN : Create(1, writeFails)

Next == FetchStep \/ GateStep \/ CreateStep

Spec == Init /\ [][Next]_vars

(***************************************************************************)
(* SpecTwice: the scraper run twice, one run after the other, over the     *)
(* same feed output, with no failure. The database may hold a URL more     *)
(* than once before the runs (earlier races or failed gate queries).       *)
(***************************************************************************)
TwiceInit == IngestInit({NoLink, "A", "B"}, Urls, MaxInitial + 1)

Turn(p) == p = 1 \/ pc[1] = "done"

TwiceFetch == \E p \in Runs : Turn(p) /\ Fetch(p, NoFail)
TwiceGate == \E p \in Runs : Turn(p) /\ Gate(p, FALSE)
TwiceCreate == \E p \in Runs : Turn(p) /\ Create(p, FALSE)

TwiceNext == TwiceFetch \/ TwiceGate \/ TwiceCreate

SpecTwice == TwiceInit /\ [][TwiceNext]_vars

(***************************************************************************)
(* SpecRace: two runs of the scraper at the same time on an empty          *)
(* database, their steps interleaved freely, with no failure.              *)
(***************************************************************************)
RaceInit == IngestInit({NoLink, "A", "B"}, {}, 0)

RaceFetch == \E p \in Runs : Fetch(p, NoFail)
RaceGate == \E p \in Runs : Gate(p, FALSE)
RaceCreate == \E p \in Runs : Create(p, FALSE)

RaceNext == RaceFetch \/ RaceGate \/ RaceCreate

SpecRace == RaceInit /\ [][RaceNext]_vars

(***************************************************************************)
(* Claims about the Ingestor and the DeduplicationGate.                    *)
(***************************************************************************)
BothDone == pc[1] = "done" /\ pc[2] = "done"

\* C1 (original statement): after the two runs the store holds exactly one page
\* for every URL of the feed output, and the second run adds nothing. Stated for
\* the non-empty URLs, so that articles without a link play no part. Fails when
\* the store held a URL of the feed output more than once before the runs.
C1_ExactlyOnePerUrl ==
    BothDone =>
        /\ \A u \in Range(all_articles[1]) \ {""} : store[u] = 1
        /\ articles_added[2] = 0
        /\ articles_skipped[2] = Len(all_articles[2])

\* C1 (amended): after the two runs over the same feed output, a URL of the feed
\* output has exactly one page if the store held none before, and otherwise
\* exactly the pages the store held before; URLs outside the feed output are
\* untouched; the second run adds nothing and counts every article as skipped.
C1_TwiceIdempotent ==
    BothDone =>
        /\ all_articles[2] = all_articles[1]
        /\ \A u \in Urls :
              store[u] = IF u \in Range(all_articles[1])
                         THEN Max(1, initStore[u]) ELSE initStore[u]
        /\ articles_added[2] = 0
        /\ articles_skipped[2] = Len(all_articles[2])
        /\ articles_added[1] =
              Cardinality({u \in Range(all_articles[1]) : initStore[u] = 0})

\* C1 witness: both runs are over, the feed output names a URL twice and a URL
\* that was not stored before, which now has its one page.
C1_Witness ==
    /\ BothDone
    /\ Len(all_articles[1]) > Cardinality(Range(all_articles[1]))
    /\ \E u \in Range(all_articles[1]) : initStore[u] = 0 /\ store[u] = 1
    /\ articles_skipped[2] = Len(all_articles[2])

\* C2: a gate query that fails sends the run on to the store's create for that
\* article and leaves the skip counter alone.
C2_GateFailsOpen ==
    [][\A p \in Runs :
          (pc[p] = "gate" /\ gated'[p] # gated[p] /\ lastQuery'[p] = "failed")
              => /\ pc'[p] = "create"
                 /\ artIdx'[p] = artIdx[p]
                 /\ articles_skipped'[p] = articles_skipped[p]]_vars

\* C2 witness: a run is about to create a page for a URL the store already
\* holds, because its gate query failed.
C2_Witness ==
    \E p \in Runs :
        /\ pc[p] = "create"
        /\ lastQuery[p] = "failed"
        /\ store[CurUrl(p)] > 0

\* C3: nothing serializes the runs. A gate query answers from the pages stored at
\* that moment only (a create the other run has pending does not count), and a
\* create adds a page whatever the store holds by then.
C3_NoSerialization ==
    [][\A p \in Runs :
          /\ (pc[p] = "gate" /\ gated'[p] # gated[p] /\ store[CurUrl(p)] = 0)
                => pc'[p] = "create"
          /\ (pc[p] = "create" /\ pc'[p] # "create")
                => store'[CurUrl(p)] = store[CurUrl(p)] + 1]_vars

\* C3 witness: no query and no write has failed, the store was empty, and it
\* holds two pages with the same URL, one from each run.
C3_Witness ==
    \E u \in Urls :
        /\ ~anyFailure
        /\ initStore[u] = 0
        /\ store[u] = 2
        /\ articles_added[1] > 0
        /\ articles_added[2] > 0

\* C4 (the claim): the counters of the aggregator account for every article
\* create_notion_page has dealt with. The class has articles_added and
\* articles_skipped and no failure counter, so an article whose create raises
\* is counted nowhere.
C4_EveryArticleCounted ==
    \A p \in Runs :
        articles_added[p] + articles_skipped[p] = artIdx[p] - 1

\* Number of articles a parse_rss_feed call contributed.
Contributed(i, failAt) ==
    Len(parse_rss_feed(feeds[i], failAt))

RECURSIVE OffsetOf(_, _)
OffsetOf(p, i) ==
    IF i = 1 THEN 0
    ELSE OffsetOf(p, i - 1) + Contributed(i - 1, fetchLog[p][i - 1])

\* C5: whichever feeds fail, every feed is fetched; the articles of every feed
\* that did not fail are in all_articles, in feed order; every article of
\* all_articles is passed to the gate; and, when no query and no write failed,
\* every URL of all_articles is stored at the end.
C5_FeedErrorsTolerated ==
    \A p \in Runs :
        /\ pc[p] # "fetch" =>
              /\ Len(fetchLog[p]) = NumFeeds
              /\ \A i \in 1..NumFeeds :
                    fetchLog[p][i] = NoFail =>
                        SubSeq(all_articles[p], OffsetOf(p, i) + 1,
                               OffsetOf(p, i) + Len(feeds[i]))
                          = [k \in 1..Len(feeds[i]) |-> ResolveUrl(feeds[i][k])]
        /\ pc[p] = "done" =>
              /\ gated[p] = all_articles[p]
              /\ ~anyFailure => \A u \in Range(all_articles[p]) : store[u] > 0

\* C5 witness: the first feed failed, a later feed served an entry, and the run
\* ended with that entry's article passed to the gate.
C5_Witness ==
    \E p \in Runs :
        /\ pc[p] = "done"
        /\ fetchLog[p][1] # NoFail
        /\ Len(feeds[1]) > 0
        /\ fetchLog[p][NumFeeds] = NoFail
        /\ Len(feeds[NumFeeds]) > 0
        /\ gated[p] = all_articles[p]
        /\ gated[p] # <<>>

\* C6 (the claim): an entry whose URL resolves to '' is dropped by
\* normalization, so no article with an empty url is among all_articles, reaches
\* the gate or is created.
C6_EmptyUrlDropped ==
    /\ \A p \in Runs : "" \notin Range(all_articles[p]) \cup Range(gated[p])
    /\ store[""] = initStore[""]

(***************************************************************************)
(* Text: a Python str is a sequence of one-character strings.              *)
(***************************************************************************)
UPPERCASE == <<"A", "B", "C", "D", "E", "F", "G", "H", "I", "J", "K", "L", "M", "N", "O", "P", "Q", "R", "S", "T", "U", "V", "W", "X", "Y", "Z">>
LOWERCASE == <<"a", "b", "c", "d", "e", "f", "g", "h", "i", "j", "k", "l", "m", "n", "o", "p", "q", "r", "s", "t", "u", "v", "w", "x", "y", "z">>
DIGITS == {"0", "1", "2", "3", "4", "5", "6", "7", "8", "9"}
WHITESPACE == {" ", "\n", "\t"}

UPPER == Range(UPPERCASE)
ALPHA == Range(UPPERCASE) \cup Range(LOWERCASE)

IsAlpha(c) == c \in ALPHA
\* \w of the re module, for the characters of the model
IsWordChar(c) == IsAlpha(c) \/ c \in DIGITS \/ c = "_"

\* str.lower(), one character
LowerChar(c) ==
    IF c \in UPPER
    THEN LOWERCASE[CHOOSE i \in 1..Len(UPPERCASE) : UPPERCASE[i] = c]
    ELSE c
\* A sequence given by a rule, as a tuple (each member worked out once).
Tuple(f) == f \o <<>>

\* str.lower()
Lower(text) == Tuple([i \in 1..Len(text) |-> LowerChar(text[i])])

\* str.strip(): leading and trailing whitespace removed
RECURSIVE LStrip(_)
LStrip(text) ==
    IF text # <<>> /\ Head(text) \in WHITESPACE THEN LStrip(Tail(text)) ELSE text
RECURSIVE RStrip(_)
RStrip(text) ==
    IF text # <<>> /\ text[Len(text)] \in WHITESPACE
    THEN RStrip(SubSeq(text, 1, Len(text) - 1)) ELSE text
Strip(text) == RStrip(LStrip(text))

\* ' '.join(parts)
RECURSIVE JoinSpace(_)
JoinSpace(parts) ==
    IF parts = <<>> THEN <<>>
    ELSE IF Len(parts) = 1 THEN parts[1]
    ELSE parts[1] \o <<" ">> \o JoinSpace(Tail(parts))

\* An optional str: None, or a text.
None == [has |-> FALSE, text |-> <<>>]
Some(text) == [has |-> TRUE, text |-> text]
\* Python truthiness of an optional str: not None and not ''
Truthy(opt) == opt.has /\ opt.text # <<>>

(***************************************************************************)
(* A dict in insertion order: a sequence of items [key, value] with        *)
(* distinct keys.                                                          *)
(***************************************************************************)
Keys(dict) == [i \in 1..Len(dict) |-> dict[i].key]
HasKey(dict, k) == \E i \in 1..Len(dict) : dict[i].key = k
Get(dict, k) == dict[CHOOSE i \in 1..Len(dict) : dict[i].key = k].value
\* dict[k] = v
Put(dict, k, v) ==
    IF HasKey(dict, k)
    THEN [i \in 1..Len(dict) |-> IF dict[i].key = k THEN [key |-> k, value |-> v] ELSE dict[i]]
    ELSE Append(dict, [key |-> k, value |-> v])

(***************************************************************************)
(* ai_digest.py: detect_hot_topics                                         *)
(***************************************************************************)
\* content[:500]
HOT_CONTENT_CHARS == 500
\* [A-Za-z]{4,}
MIN_TOKEN_LEN == 4
\* counts.most_common(10)
MOST_COMMON_N == 10

stopwords ==
    {<<"t", "h", "i", "s">>,
     <<"t", "h", "a", "t">>,
     <<"w", "i", "t", "h">>,
     <<"f", "r", "o", "m">>,
     <<"h", "a", "v", "e">>,
     <<"b", "e", "e", "n">>,
     <<"w", "i", "l", "l">>,
     <<"t", "h", "e", "i", "r">>,
     <<"w", "h", "a", "t">>,
     <<"a", "b", "o", "u", "t">>,
     <<"w", "h", "i", "c", "h">>,
     <<"w", "h", "e", "n">>,
     <<"m", "a", "k", "e">>,
     <<"t", "h", "a", "n">>,
     <<"o", "t", "h", "e", "r">>,
     <<"i", "n", "t", "o">>,
     <<"c", "o", "u", "l", "d">>,
     <<"w", "o", "u", "l", "d">>,
     <<"s", "h", "o", "u", "l", "d">>,
     <<"t", "h", "e", "s", "e">>,
     <<"t", "h", "o", "s", "e">>}

\* all_text of detect_hot_topics: per article, in dict order, the lowered title
\* and, when the content is truthy, its lowered first 500 characters.
RECURSIVE ArticleTexts(_)
ArticleTexts(arts) ==
    IF arts = <<>> THEN <<>>
    ELSE LET a == Head(arts)
         IN  <<Lower(a.title)>>
             \o (IF Truthy(a.content)
                 THEN <<Lower(Take(a.content.text, HOT_CONTENT_CHARS))>> ELSE <<>>)
             \o ArticleTexts(Tail(arts))

RECURSIVE AllText(_)
AllText(groups) ==
    IF groups = <<>> THEN <<>>
    ELSE ArticleTexts(Head(groups).value) \o AllText(Tail(groups))

\* The k-th smallest member of a set of numbers.
Nth(S, k) == CHOOSE i \in S : Cardinality({j \in S : j < i}) = k - 1

\* re.findall(r'\b[A-Za-z]{4,}\b', text). A match starts and ends at a word
\* boundary, so it is a whole run of word characters: one that has letters only
\* and at least four of them. The matches come in text order.
FindAll(text) ==
    LET n == Len(text)
        starts == {i \in 1..n : IsWordChar(text[i]) /\ (i = 1 \/ ~IsWordChar(text[i - 1]))}
        ends == {j \in 1..n : IsWordChar(text[j]) /\ (j = n \/ ~IsWordChar(text[j + 1]))}
        runs == Tuple([k \in 1..Cardinality(starts) |->
                          SubSeq(text, Nth(starts, k), Nth(ends, k))])
    IN  SelectSeq(runs, LAMBDA run : /\ Len(run) >= MIN_TOKEN_LEN
                                     /\ \A m \in 1..Len(run) : IsAlpha(run[m]))

\* filtered of detect_hot_topics
Filtered(groups) ==
    SelectSeq(FindAll(JoinSpace(AllText(groups))), LAMBDA w : w \notin stopwords)

\* Counter(words): the distinct words in first-seen order, each with its count.
Counter(words) ==
    LET firsts == {i \in 1..Len(words) : \A j \in 1..(i - 1) : words[j] # words[i]}
    IN  Tuple([k \in 1..Cardinality(firsts) |->
                  LET w == words[Nth(firsts, k)]
                  IN  [key |-> w,
                       value |-> Cardinality({i \in 1..Len(words) : words[i] = w})]])

\* Counter.most_common(n): the n items with the largest counts, largest first,
\* equal counts in first-seen order (a stable sort).
RECURSIVE most_common(_, _)
most_common(counter, n) ==
    IF n = 0 \/ counter = <<>> THEN <<>>
    ELSE LET best == CHOOSE i \in 1..Len(counter) :
                        /\ \A j \in 1..Len(counter) : counter[j].value <= counter[i].value
                        /\ \A j \in 1..(i - 1) : counter[j].value < counter[i].value
             rest == [j \in 1..(Len(counter) - 1) |->
                         IF j < best THEN counter[j] ELSE counter[j + 1]]
         IN  <<counter[best]>> \o most_common(rest, n - 1)

\* Mutant of detect_hot_topics: the threshold is not applied.
detect_hot_topics_unfiltered(groups, threshold) ==
    Keys(most_common(Counter(Filtered(groups)), MOST_COMMON_N))

\* detect_hot_topics (CONFIG['hot_topics_enabled'] is True)
detect_hot_topics(groups, threshold) ==
    Keys(SelectSeq(most_common(Counter(Filtered(groups)), MOST_COMMON_N),
                   LAMBDA item : item.value >= threshold))

(***************************************************************************)
(* ai_digest.py: the digest run                                            *)
(***************************************************************************)
\* CONFIG['sources']
CONFIG_sources == <<"LEGO News", "Data Science", "Tech">>
\* CONFIG['hours_lookback']
hours_lookback == 24
\* CONFIG['max_articles_per_source']
max_articles_per_source == 10
\* CONFIG['hot_topic_threshold']
HOT_TOPIC_THRESHOLD == 3
\* text[:3000] of fetch_article_content
FETCH_CHARS == 3000
\* content[:1000] of generate_ai_summary
SUMMARY_CONTENT_CHARS == 1000

\* The Source property of a page: a select with a name, a select without a
\* name, or no select at all.
NoSelect == "<no select>"
NoName == "<no name>"
\* source_prop['select'].get('name', 'Unknown')
SelectName(source) == IF source = NoName THEN "Unknown" ELSE source

\* The order of the Source values under "sorts": Source ascending.
SourceOrder == <<"Data Science", "LEGO News", "Other", "Tech", "Unknown", NoName>>

\* now - timedelta(hours=CONFIG['hours_lookback'])
Lookback == now - hours_lookback

\* Mutant of DateAfter: the filter "on_or_after".
DateOnOrAfter(date, bound) == date >= bound

\* The date filter {"after": bound} of the store.
DateAfter(date, bound) == date > bound

\* The store's answer to the query of get_articles_from_last_24h: the pages with
\* Scraped Date after the bound and a non-empty Source, sorted by Source.
RECURSIVE SortedFrom(_, _)
SortedFrom(pages, k) ==
    IF k > Len(SourceOrder) THEN <<>>
    ELSE SelectSeq(pages, LAMBDA pg : pg.source = SourceOrder[k]) \o SortedFrom(pages, k + 1)

QueryResults(pages, bound) ==
    SortedFrom(SelectSeq(pages, LAMBDA pg : DateAfter(pg.scraped, bound)
                                            /\ pg.source # NoSelect), 1)

\* get_articles_from_last_24h: the results, [] when the status is not 200.
get_articles_from_last_24h(ok) ==
    IF ok THEN QueryResults(db, Lookback) ELSE <<>>

\* fetch_article_content: None when the request raises, else the first 3000
\* characters of the extracted text.
fetch_article_content(raw) ==
    IF raw.has THEN Some(Take(raw.text, FETCH_CHARS)) ELSE None

\* title_prop[0].get('plain_text', 'Untitled') if title_prop else 'Untitled'
Untitled == <<"U", "n", "t", "i", "t", "l", "e", "d">>
TitleOf(page) == IF page.title = <<>> THEN Untitled ELSE page.title[1]

\* by_source[source].append(article), the list created when the key is new
AppendTo(dict, source, article) ==
    Put(dict, source, (IF HasKey(dict, source) THEN Get(dict, source) ELSE <<>>) \o <<article>>)

\* main(), the grouping loop: a page without a select is passed over, and so is
\* a page whose source is not in CONFIG['sources']; the others are appended to
\* their source's list with their fetched content (None for an empty URL).
\* raws[i] is what the request for the URL of page i yields.
RECURSIVE GroupBySource(_, _, _, _)
GroupBySource(pages, raws, i, acc) ==
    IF i > Len(pages) THEN acc
    ELSE LET page == pages[i]
             source == SelectName(page.source)
         IN  IF page.source = NoSelect \/ source \notin Range(CONFIG_sources)
             THEN GroupBySource(pages, raws, i + 1, acc)
             ELSE GroupBySource(pages, raws, i + 1,
                     AppendTo(acc, source,
                              [title |-> TitleOf(page),
                               url |-> page.url,
                               content |-> IF page.url # ""
                                           THEN fetch_article_content(raws[i])
                                           ELSE None]))

(***************************************************************************)
(* news_digest.py: create_summary_by_source                                *)
(***************************************************************************)
\* A page without a select gets the source 'Unknown'; a page whose source is not
\* in CONFIG['sources'] is passed over.
RECURSIVE SummaryBySource(_, _, _)
SummaryBySource(pages, i, acc) ==
    IF i > Len(pages) THEN acc
    ELSE LET page == pages[i]
             source == IF page.source = NoSelect THEN "Unknown" ELSE SelectName(page.source)
         IN  IF source \notin Range(CONFIG_sources)
             THEN SummaryBySource(pages, i + 1, acc)
             ELSE SummaryBySource(pages, i + 1,
                     AppendTo(acc, source,
                              [title |-> TitleOf(page), url |-> page.url,
                               date |-> page.scraped]))

\* Mutant of create_summary_by_source: sources outside CONFIG['sources'] are
\* grouped too (pages without a select under 'Unknown').
RECURSIVE BucketBySource(_, _, _)
BucketBySource(pages, i, acc) ==
    IF i > Len(pages) THEN acc
    ELSE LET page == pages[i]
             source == IF page.source = NoSelect THEN "Unknown" ELSE SelectName(page.source)
         IN  BucketBySource(pages, i + 1,
                 AppendTo(acc, source,
                          [title |-> TitleOf(page), url |-> page.url,
                           date |-> page.scraped]))

create_summary_bucketing(pages) == BucketBySource(pages, 1, <<>>)

create_summary_by_source(pages) == SummaryBySource(pages, 1, <<>>)

(***************************************************************************)
(* ai_digest.py: generate_ai_summary                                       *)
(***************************************************************************)
NO_CONTENT == <<"N", "o", " ", "a", "r", "t", "i", "c", "l", "e", " ", "c", "o", "n", "t", "e", "n", "t", " ", "a", "v", "a", "i", "l", "a", "b", "l", "e", ".">>
UNAVAILABLE == <<"A", "I", " ", "s", "u", "m", "m", "a", "r", "y", " ", "u", "n", "a", "v", "a", "i", "l", "a", "b", "l", "e", ".">>

\* articles_text: one part per article, among the first
\* max_articles_per_source, whose content is truthy.
RECURSIVE ArticlesTextFrom(_, _)
ArticlesTextFrom(arts, i) ==
    IF i > Min(Len(arts), max_articles_per_source) THEN <<>>
    ELSE (IF Truthy(arts[i].content)
          THEN <<[n |-> i, title |-> arts[i].title,
                  content |-> Take(arts[i].content.text, SUMMARY_CONTENT_CHARS)]>>
          ELSE <<>>) \o ArticlesTextFrom(arts, i + 1)

ArticlesText(arts) == ArticlesTextFrom(arts, 1)

\* The system prompt chosen for a source.
SystemPrompt(source) ==
    IF source \in {"LEGO News", "Data Science", "Tech"} THEN source ELSE "expert journalist"

\* summaries[source] after the call: the stripped message content; the fallback
\* when the call raises or the content is None (None.strip() raises inside the
\* try).
SummaryFromReply(reply) ==
    IF reply.raises \/ ~reply.content.has THEN UNAVAILABLE ELSE Strip(reply.content.text)

(***************************************************************************)
(* The steps of ai_digest.main and news_digest.main.                       *)
(***************************************************************************)
\* Nothing composed, nothing created yet.
ComposeIdle ==
    /\ news_articles = <<>>
    /\ create_if_no_articles = FALSE
    /\ children = <<>>
    /\ creates = 0
    /\ news_children = <<>>
    /\ ncreates = 0

IngestIdle ==
    /\ feeds = <<>>
    /\ store = [u \in Urls |-> 0]
    /\ initStore = store
    /\ pc = [p \in Runs |-> "done"]
    /\ feedIdx = [p \in Runs |-> 0]
    /\ all_articles = [p \in Runs |-> <<>>]
    /\ artIdx = [p \in Runs |-> 1]
    /\ articles_added = [p \in Runs |-> 0]
    /\ articles_skipped = [p \in Runs |-> 0]
    /\ lastQuery = [p \in Runs |-> "none"]
    /\ fetchLog = [p \in Runs |-> <<>>]
    /\ gated = [p \in Runs |-> <<>>]
    /\ anyFailure = FALSE

\* main(): articles = get_articles_from_last_24h(); no articles, no digest.
Query(ok) ==
    /\ dpc = "query"
    /\ queryStatus' = IF ok THEN "ok" ELSE "error"
    /\ articles' = get_articles_from_last_24h(ok)
    /\ dpc' = IF articles' = <<>> THEN "done" ELSE "group"
    /\ UNCHANGED <<db, now, hot_topic_threshold, by_source, news_by_source, sumIdx,
                   ai_summaries, calls, hot_topics, npc>>
    /\ UNCHANGED composeVars
    /\ UNCHANGED ingestVars

\* main(): the grouping loop, with one content fetch per grouped article.
Group(raws) ==
    /\ dpc = "group"
    /\ by_source' = GroupBySource(articles, raws, 1, <<>>)
    /\ sumIdx' = 1
    /\ dpc' = IF by_source' = <<>> THEN "hot" ELSE "summaries"
    /\ UNCHANGED <<db, now, hot_topic_threshold, queryStatus, articles, news_by_source,
                   ai_summaries, calls, hot_topics, npc>>
    /\ UNCHANGED composeVars
    /\ UNCHANGED ingestVars

\* Mutant of Summarize: an exception of the summarization call is not caught
\* and ends the run.
SummarizeUncaught(reply) ==
    /\ dpc = "summaries"
    /\ LET source == by_source[sumIdx].key
           arts == by_source[sumIdx].value
       IN  IF ArticlesText(arts) = <<>>
           THEN /\ ai_summaries' = Put(ai_summaries, source, NO_CONTENT)
                /\ UNCHANGED calls
                /\ dpc' = IF sumIdx < Len(by_source) THEN "summaries" ELSE "hot"
           ELSE /\ calls' = Append(calls, [source |-> source,
                                           prompt |-> SystemPrompt(source),
                                           reply |-> reply])
                /\ ai_summaries' = IF reply.raises THEN ai_summaries
                                   ELSE Put(ai_summaries, source, SummaryFromReply(reply))
                /\ dpc' = IF reply.raises THEN "failed"
                          ELSE IF sumIdx < Len(by_source) THEN "summaries" ELSE "hot"
    /\ sumIdx' = sumIdx + 1
    /\ UNCHANGED <<db, now, hot_topic_threshold, queryStatus, articles, by_source,
                   news_by_source, hot_topics, npc>>
    /\ UNCHANGED composeVars
    /\ UNCHANGED ingestVars

\* generate_ai_summary, one turn of its loop: the fallback without a call when
\* no article has content, else one call of the summarization service.
Summarize(reply) ==
    /\ dpc = "summaries"
    /\ LET source == by_source[sumIdx].key
           arts == by_source[sumIdx].value
       IN  IF ArticlesText(arts) = <<>>
           THEN /\ ai_summaries' = Put(ai_summaries, source, NO_CONTENT)
                /\ UNCHANGED calls
           ELSE /\ calls' = Append(calls, [source |-> source,
                                           prompt |-> SystemPrompt(source),
                                           reply |-> reply])
                /\ ai_summaries' = Put(ai_summaries, source, SummaryFromReply(reply))
    /\ sumIdx' = sumIdx + 1
    /\ dpc' = IF sumIdx < Len(by_source) THEN "summaries" ELSE "hot"
    /\ UNCHANGED <<db, now, hot_topic_threshold, queryStatus, articles, by_source,
                   news_by_source, hot_topics, npc>>
    /\ UNCHANGED composeVars
    /\ UNCHANGED ingestVars

\* main(): hot_topics = detect_hot_topics(by_source)
Hot ==
    /\ dpc = "hot"
    /\ hot_topics' = detect_hot_topics(by_source, hot_topic_threshold)
    /\ dpc' = "page"
    /\ UNCHANGED <<db, now, hot_topic_threshold, queryStatus, articles, by_source,
                   news_by_source, sumIdx, ai_summaries, calls, npc>>
    /\ UNCHANGED composeVars
    /\ UNCHANGED ingestVars

\* news_digest.main(): by_source = create_summary_by_source(articles)
NewsGroup ==
    /\ npc = "group"
    /\ news_by_source' = create_summary_by_source(news_articles)
    /\ npc' = "page"
    /\ UNCHANGED <<db, now, hot_topic_threshold, dpc, queryStatus, articles, by_source,
                   sumIdx, ai_summaries, calls, hot_topics>>
    /\ UNCHANGED composeVars
    /\ UNCHANGED ingestVars

(***************************************************************************)
(* ai_digest.py: create_digest_page                                        *)
(***************************************************************************)
\* The paragraph ceiling of create_digest_page
PARA_MAX == 1900
\* hot_topics[:5]
TOPICS_SHOWN == 5
\* CONFIG['skip_empty_sources']
skip_empty_sources == TRUE

\* str.split(sep) for a separator of two characters. The matches of sep are
\* taken from left to right without overlap: of a run of places where sep
\* occurs one after the other, the first, third, ... are matches.
Split(text, sep) ==
    LET n == Len(text)
        cands == {i \in 1..(n - 1) : text[i] = sep[1] /\ text[i + 1] = sep[2]}
        RunBefore(i) == Cardinality({j \in cands : j < i /\ \A m \in j..i : m \in cands})
        cuts == {i \in cands : RunBefore(i) % 2 = 0}
        k == Cardinality(cuts)
        From(p) == IF p = 1 THEN 1 ELSE Nth(cuts, p - 1) + 2
        To(p) == IF p = k + 1 THEN n ELSE Nth(cuts, p) - 1
    IN  Tuple([p \in 1..(k + 1) |-> SubSeq(text, From(p), To(p))])

\* sep.join(parts)
RECURSIVE JoinWith(_, _)
JoinWith(parts, sep) ==
    IF parts = <<>> THEN <<>>
    ELSE IF Len(parts) = 1 THEN parts[1]
    ELSE parts[1] \o sep \o JoinWith(Tail(parts), sep)

\* The lists of a list of lists, one after the other.
RECURSIVE Flatten(_)
Flatten(lists) == IF lists = <<>> THEN <<>> ELSE Head(lists) \o Flatten(Tail(lists))

\* str.upper(), one character
UpperChar(c) ==
    IF c \in Range(LOWERCASE)
    THEN UPPERCASE[CHOOSE i \in 1..Len(LOWERCASE) : LOWERCASE[i] = c]
    ELSE c

\* str.title(): the first letter of every run of letters in upper case, the
\* other letters in lower case.
Title(text) ==
    Tuple([i \in 1..Len(text) |->
              IF IsAlpha(text[i]) /\ (i = 1 \/ ~IsAlpha(text[i - 1]))
              THEN UpperChar(text[i]) ELSE LowerChar(text[i])])

\* [p.strip() for p in summary.split('\n\n') if p.strip()]
Paragraphs(summary) ==
    LET parts == Split(summary, <<"\n", "\n">>)
        stripped == Tuple([i \in 1..Len(parts) |-> Strip(parts[i])])
    IN  SelectSeq(stripped, LAMBDA p : p # <<>>)

\* What is emitted for `current`: current.strip(), if current is not empty.
Flushed(current) == IF current # <<>> THEN <<Strip(current)>> ELSE <<>>

\* The loop over the sentences of a long paragraph, from sentence i on with
\* the buffer `current`: the contents of the paragraph blocks it appends.
RECURSIVE SplitSentences(_, _, _)
SplitSentences(sentences, i, current) ==
    IF i > Len(sentences) THEN Flushed(current)
    ELSE LET sent == sentences[i]
         IN  IF Len(current) + Len(sent) + 2 < PARA_MAX
             THEN SplitSentences(sentences, i + 1, current \o sent \o <<".", " ">>)
             ELSE Flushed(current)
                  \o SplitSentences(sentences, i + 1, sent \o <<".", " ">>)

\* The contents of the paragraph blocks appended for one paragraph.
ParagraphBlocks(para) ==
    IF Len(para) > PARA_MAX
    THEN SplitSentences(Split(para, <<".", " ">>), 1, <<>>)
    ELSE <<para>>

\* A block of the page. content is the text of its rich_text, as a sequence of
\* text pieces; link is the URL of its link ("<no link>" without one). part and
\* source say which part of create_digest_page appended the block, and in the
\* section of which source.
NoLinkField == "<no link>"
NoSource == "<no source>"
Block(type, content, link, part, source) ==
    [type |-> type, content |-> content, link |-> link, part |-> part, source |-> source]

\* The emoji of a source, by name.
Emoji(source) ==
    CASE source = "LEGO News" -> "(brick)"
      [] source = "Data Science" -> "(chart)"
      [] source = "Tech" -> "(laptop)"
      [] OTHER -> "(newspaper)"

\* # HOT TOPICS
HotBlocks(hot) ==
    IF hot = <<>> THEN <<>>
    ELSE LET shown == Take(hot, TOPICS_SHOWN)
             bold == [i \in 1..Len(shown) |-> <<"*", "*">> \o Title(shown[i]) \o <<"*", "*">>]
         IN  <<Block("heading_2", <<"(fire) Hot Topics Today">>, NoLinkField, "hot", NoSource),
               Block("paragraph", JoinWith(bold, <<",", " ">>), NoLinkField, "hot", NoSource),
               Block("divider", <<>>, NoLinkField, "hot", NoSource)>>

\* sum(len(arts) for arts in by_source.values())
RECURSIVE Total(_)
Total(groups) == IF groups = <<>> THEN 0 ELSE Len(Head(groups).value) + Total(Tail(groups))

\* # STATS
StatsBlocks(groups) ==
    <<Block("heading_2", <<"(chart) Overview">>, NoLinkField, "stats", NoSource),
      Block("paragraph", <<"Total Articles: ", ToString(Total(groups))>>, NoLinkField,
            "stats", NoSource)>>
    \o [i \in 1..Len(groups) |->
           Block("paragraph",
                 <<Emoji(groups[i].key), " ", groups[i].key, ": ",
                   ToString(Len(groups[i].value)), " articles">>,
                 NoLinkField, "stats", NoSource)]
    \o <<Block("divider", <<>>, NoLinkField, "stats", NoSource)>>

\* The paragraph blocks of a source's summary.
SummaryBlocks(source, summaries) ==
    IF ~HasKey(summaries, source) THEN <<>>
    ELSE LET paragraphs == Paragraphs(Get(summaries, source))
             texts == Flatten([p \in 1..Len(paragraphs) |-> ParagraphBlocks(paragraphs[p])])
         IN  [b \in 1..Len(texts) |->
                 Block("paragraph", texts[b], NoLinkField, "summary", source)]

\* The link list of a source: its header and one bullet per article, of the
\* first max_articles_per_source.
LinkBlocks(source, arts) ==
    IF arts = <<>> THEN <<>>
    ELSE LET listed == Take(arts, max_articles_per_source)
         IN  <<Block("paragraph", <<"\n(paperclip) Read the full articles:">>, NoLinkField,
                     "links", source)>>
             \o [a \in 1..Len(listed) |->
                    Block("bulleted_list_item", listed[a].title, listed[a].url,
                          "link", source)]

\* One turn of the loop over by_source.items(): heading, summary, links, divider.
SectionBlocks(source, arts, summaries) ==
    IF skip_empty_sources /\ arts = <<>> THEN <<>>
    ELSE <<Block("heading_2", <<Emoji(source), " ", source>>, NoLinkField, "heading", source)>>
         \o SummaryBlocks(source, summaries)
         \o LinkBlocks(source, arts)
         \o <<Block("divider", <<>>, NoLinkField, "divider", source)>>

\* Mutant of Children: the sections in the order of CONFIG['sources'].
ChildrenConfigOrder(groups, summaries, hot) ==
    LET listed == SelectSeq(CONFIG_sources, LAMBDA source : HasKey(groups, source))
    IN  HotBlocks(hot)
        \o StatsBlocks(groups)
        \o Flatten([i \in 1..Len(listed) |->
                       SectionBlocks(listed[i], Get(groups, listed[i]), summaries)])

\* children of create_digest_page
Children(groups, summaries, hot) ==
    HotBlocks(hot)
    \o StatsBlocks(groups)
    \o Flatten([i \in 1..Len(groups) |->
                   SectionBlocks(groups[i].key, groups[i].value, summaries)])

\* main(): url = create_digest_page(by_source, ai_summaries, hot_topics). The
\* create of the store is invoked once; when it raises, so does main().
CreatePage(fails) ==
    /\ dpc = "page"
    /\ children' = Children(by_source, ai_summaries, hot_topics)
    /\ creates' = creates + 1
    /\ dpc' = IF fails THEN "failed" ELSE "done"
    /\ UNCHANGED <<db, now, hot_topic_threshold, queryStatus, articles, by_source,
                   news_by_source, sumIdx, ai_summaries, calls, hot_topics, npc>>
    /\ UNCHANGED <<news_articles, create_if_no_articles, news_children, ncreates>>
    /\ UNCHANGED ingestVars

(***************************************************************************)
(* news_digest.py: main, get_articles_from_last_24h, create_digest_page    *)
(***************************************************************************)
\* Mutant of NewsQuery: the run goes on to the page whatever the flag says.
NewsQueryNoSkip(raises) ==
    /\ npc = "query"
    /\ news_articles' = IF raises THEN news_articles ELSE QueryResults(db, Lookback)
    /\ npc' = IF raises THEN "failed" ELSE "group"
    /\ UNCHANGED <<db, now, hot_topic_threshold, dpc, queryStatus, articles, by_source,
                   news_by_source, sumIdx, ai_summaries, calls, hot_topics>>
    /\ UNCHANGED <<create_if_no_articles, children, creates, news_children, ncreates>>
    /\ UNCHANGED ingestVars

\* main(): articles = get_articles_from_last_24h(), the pages with Date after
\* the bound and a Source, sorted by Source; an exception of the query ends the
\* run. Without articles and without create_if_no_articles main returns.
NewsQuery(raises) ==
    /\ npc = "query"
    /\ news_articles' = IF raises THEN news_articles ELSE QueryResults(db, Lookback)
    /\ npc' = IF raises THEN "failed"
              ELSE IF Len(news_articles') = 0 /\ ~create_if_no_articles THEN "done"
              ELSE "group"
    /\ UNCHANGED <<db, now, hot_topic_threshold, dpc, queryStatus, articles, by_source,
                   news_by_source, sumIdx, ai_summaries, calls, hot_topics>>
    /\ UNCHANGED <<create_if_no_articles, children, creates, news_children, ncreates>>
    /\ UNCHANGED ingestVars

\* "  |  ".join([f"{src}: {len(arts)}" for src, arts in by_source.items()])
NewsStats(groups) ==
    JoinWith([i \in 1..Len(groups) |->
                 <<groups[i].key, ": ", ToString(Len(groups[i].value))>>], <<"  |  ">>)

\* One turn of the loop over by_source.items(): heading and one bullet per
\* article, of the first max_articles_per_source; the bullet has a link when
\* the article has a URL.
NewsSectionBlocks(source, arts) ==
    IF skip_empty_sources /\ arts = <<>> THEN <<>>
    ELSE LET listed == Take(arts, max_articles_per_source)
         IN  <<Block("heading_2",
                     <<Emoji(source), " ", source, " (", ToString(Len(arts)), " articles)">>,
                     NoLinkField, "heading", source)>>
             \o [a \in 1..Len(listed) |->
                    Block("bulleted_list_item", listed[a].title,
                          IF listed[a].url # "" THEN listed[a].url ELSE NoLinkField,
                          "link", source)]

\* children of news_digest.create_digest_page
NewsChildren(groups) ==
    <<Block("heading_1", <<"(newspaper) Daily News Summary - ", "today">>, NoLinkField,
            "title", NoSource),
      Block("divider", <<>>, NoLinkField, "title", NoSource),
      Block("paragraph",
            <<"Total Articles: ", ToString(Total(groups)), "  |  ">> \o NewsStats(groups),
            NoLinkField, "stats", NoSource),
      Block("divider", <<>>, NoLinkField, "stats", NoSource)>>
    \o Flatten([i \in 1..Len(groups) |->
                   NewsSectionBlocks(groups[i].key, groups[i].value)])

\* main(): page_url = create_digest_page(by_source). The create of the store is
\* invoked once; its exception is raised again.
NewsCreate(fails) ==
    /\ npc = "page"
    /\ news_children' = NewsChildren(news_by_source)
    /\ ncreates' = ncreates + 1
    /\ npc' = IF fails THEN "failed" ELSE "done"
    /\ UNCHANGED <<db, now, hot_topic_threshold, dpc, queryStatus, articles, by_source,
                   news_by_source, sumIdx, ai_summaries, calls, hot_topics>>
    /\ UNCHANGED <<news_articles, create_if_no_articles, children, creates>>
    /\ UNCHANGED ingestVars

(***************************************************************************)
(* Inputs of the digest specifications.                                    *)
(***************************************************************************)
MaxPages == 2          \* pages in the database, pages handed to the grouping
MaxCorpus == 2         \* articles in the corpus of the hot topic detection

Rep(c, n) == [i \in 1..n |-> c]

TitleRobot == <<"R", "o", "b", "o", "t", " ", "n", "e", "w", "s">>
BodyText == <<"A", " ", "r", "o", "b", "o", "t", ".">>

\* The current times and the Scraped Dates: with a lookback of 24 hours the
\* dates fall before, on and after the bound.
Nows == {hours_lookback + 1, hours_lookback + 2}
ScrapedDates == {1, 2}

PagePool ==
    {[source |-> s, scraped |-> t, url |-> "u", title |-> <<TitleRobot>>] :
        s \in {"Data Science", "LEGO News", "Other", NoSelect}, t \in ScrapedDates}
    \cup {[source |-> "LEGO News", scraped |-> 2, url |-> "", title |-> <<>>]}

\* What the request for an article body yields: an exception, an empty text, a text.
RawBodies == {None, Some(<<>>), Some(BodyText)}

\* What the summarization call yields: an exception, a message without
\* content, an empty or blank content, a text.
Replies ==
    {[raises |-> TRUE, content |-> None],
     [raises |-> FALSE, content |-> None],
     [raises |-> FALSE, content |-> Some(<<>>)],
     [raises |-> FALSE, content |-> Some(<<" ", "\n">>)],
     [raises |-> FALSE, content |-> Some(<<" ", "O", "k", ".", "\n">>)]}

DigestInit ==
    /\ db \in SeqsUpTo(PagePool, MaxPages)
    /\ now \in Nows
    /\ hot_topic_threshold = HOT_TOPIC_THRESHOLD
    /\ dpc = "query"
    /\ queryStatus = "none"
    /\ articles = <<>>
    /\ by_source = <<>>
    /\ news_by_source = <<>>
    /\ sumIdx = 0
    /\ ai_summaries = <<>>
    /\ calls = <<>>
    /\ hot_topics = <<>>
    /\ npc = "idle"
    /\ ComposeIdle
    /\ IngestIdle

(***************************************************************************)
(* SpecDigest: one run of ai_digest.main; the query, every body fetch,     *)
(* every summarization call and the page create free to fail.              *)
(***************************************************************************)
QueryStep == \E ok \in BOOLEAN : Query(ok)
GroupStep == \E raws \in [1..Len(articles) -> RawBodies] : Group(raws)
SummarizeStep == \E reply \in Replies : Summarize(reply)
HotStep == Hot
PageStep == \E fails \in BOOLEAN : CreatePage(fails)

DigestNext == QueryStep \/ GroupStep \/ SummarizeStep \/ HotStep \/ PageStep

SpecDigest == DigestInit /\ [][DigestNext]_vars

(***************************************************************************)
(* SpecGroup: the two grouping functions applied to a list of pages, also  *)
(* pages without a select or with a select without a name.                 *)
(***************************************************************************)
GroupPool ==
    {[source |-> s, scraped |-> 2, url |-> "u", title |-> <<TitleRobot>>] :
        s \in {"LEGO News", "Tech", "Other", "Unknown", NoSelect, NoName}}
    \cup {[source |-> "LEGO News", scraped |-> 2, url |-> "", title |-> <<>>]}

GroupInit ==
    /\ db = <<>>
    /\ now = hours_lookback + 1
    /\ hot_topic_threshold = HOT_TOPIC_THRESHOLD
    /\ dpc = "group"
    /\ queryStatus = "ok"
    /\ articles \in SeqsUpTo(GroupPool, MaxPages)
    /\ by_source = <<>>
    /\ news_by_source = <<>>
    /\ sumIdx = 0
    /\ ai_summaries = <<>>
    /\ calls = <<>>
    /\ hot_topics = <<>>
    /\ npc = "group"
    /\ news_articles = articles
    /\ create_if_no_articles = FALSE
    /\ children = <<>>
    /\ creates = 0
    /\ news_children = <<>>
    /\ ncreates = 0
    /\ IngestIdle

GroupAIStep == \E raws \in [1..Len(articles) -> RawBodies] : Group(raws)
GroupNewsStep == NewsGroup

GroupNext == GroupAIStep \/ GroupNewsStep

SpecGroup == GroupInit /\ [][GroupNext]_vars

(***************************************************************************)
(* Claims about the WindowedGrouper.                                       *)
(***************************************************************************)
Grouped == dpc \notin {"query", "group"}
AllowList == Range(CONFIG_sources)
GroupLen(dict, s) == IF HasKey(dict, s) THEN Len(Get(dict, s)) ELSE 0
PagesOf(pages, s, Keep(_)) ==
    {k \in 1..Len(pages) : pages[k].source = s /\ Keep(pages[k])}

Links(arts) == [i \in 1..Len(arts) |-> <<arts[i].title, arts[i].url>>]
\* The title and URL of the pages of a source, in the order of the list.
LinksOfSource(pages, s) ==
    LET mine == SelectSeq(pages, LAMBDA pg : pg.source = s)
    IN  [i \in 1..Len(mine) |-> <<TitleOf(mine[i]), mine[i].url>>]

\* What C8 asks of a grouped mapping built from `pages`.
WellGrouped(dict, pages) ==
    /\ \A i, j \in 1..Len(dict) : dict[i].key = dict[j].key => i = j
    /\ \A i \in 1..Len(dict) :
          /\ dict[i].key \in AllowList
          /\ dict[i].key # "Unknown"
          /\ Links(dict[i].value) = LinksOfSource(pages, dict[i].key)
    /\ \A s \in AllowList : GroupLen(dict, s) = Len(LinksOfSource(pages, s))

\* C8: after grouping (ai_digest.main and create_summary_by_source), every key
\* is a source of the allow-list, every group holds exactly the articles of its
\* own source, in order, and pages whose source is absent, nameless or outside
\* the allow-list are in no group; there is no 'Unknown' group.
C8_GroupsAreAllowListed ==
    /\ dpc # "group" => WellGrouped(by_source, articles)
    /\ npc \in {"page", "done"} => WellGrouped(news_by_source, news_articles)

\* C8 witness: both groupings are done on a list with a page of an allow-listed
\* source and a page without a usable source; one group came out of each.
C8_Witness ==
    /\ dpc # "group"
    /\ npc \in {"page", "done"}
    /\ \E k \in 1..Len(articles) : articles[k].source \in {NoSelect, NoName, "Unknown"}
    /\ \E k \in 1..Len(articles) : articles[k].source \in AllowList
    /\ Len(by_source) = 1
    /\ Len(news_by_source) = 1

(***************************************************************************)
(* Claims about the SummaryOrchestrator.                                   *)
(***************************************************************************)
SummariesDone == dpc \in {"hot", "page", "done", "failed"}
CallsFor(source) == {c \in 1..Len(calls) : calls[c].source = source}
IsBlank(text) == \A i \in 1..Len(text) : text[i] \in WHITESPACE
NoBody(arts) ==
    \A i \in 1..Min(Len(arts), max_articles_per_source) : ~Truthy(arts[i].content)

\* C10 (original statement): every source group has a non-empty entry in the
\* summaries, for every outcome of the summarization calls.
C10_NonEmptyEntry ==
    SummariesDone =>
        \A i \in 1..Len(by_source) :
            /\ HasKey(ai_summaries, by_source[i].key)
            /\ Get(ai_summaries, by_source[i].key) # <<>>

\* C10 (what holds of it): every source group has an entry in the summaries, in group
\* order. A group without body content has the 'No article content available.'
\* fallback and no call was made for it; otherwise exactly one call was made,
\* and the entry is the 'AI summary unavailable.' fallback when the call failed
\* and the stripped reply when it succeeded. The entry is non-empty unless the
\* call succeeded with an empty or blank reply. What one source's call yields
\* changes no other source's entry.
C10_EntryForEverySource ==
    SummariesDone =>
        /\ Keys(ai_summaries) = Keys(by_source)
        /\ \A i \in 1..Len(by_source) :
              LET source == by_source[i].key
                  text == ai_summaries[i].value
              IN  IF NoBody(by_source[i].value)
                  THEN text = NO_CONTENT /\ CallsFor(source) = {}
                  ELSE /\ Cardinality(CallsFor(source)) = 1
                       /\ LET reply == calls[CHOOSE c \in CallsFor(source) : TRUE].reply
                              failed == reply.raises \/ ~reply.content.has
                          IN  /\ failed => text = UNAVAILABLE
                              /\ ~failed => text = Strip(reply.content.text)
                              /\ text = <<>> => (~failed /\ IsBlank(reply.content.text))

\* C10 witness: two groups; the call for the first raised, and it has the 'AI
\* summary unavailable.' fallback; the second has no body content, and has the
\* 'No article content available.' fallback without a call.
C10_Witness ==
    /\ SummariesDone
    /\ Len(by_source) = 2
    /\ Len(calls) = 1
    /\ calls[1].source = by_source[1].key
    /\ calls[1].reply.raises
    /\ ai_summaries[1].value = UNAVAILABLE
    /\ ai_summaries[2].value = NO_CONTENT

(***************************************************************************)
(* SpecHot: detect_hot_topics applied to a grouped corpus, for several     *)
(* thresholds.                                                             *)
(***************************************************************************)
\* "This aaaa aaaa bbbb bbbb cccc cccc dddd dddd eeee eeee ffff ffff gggg gggg hhhh hhhh iiii iiii jjjj jjjj kkkk kkkk llll"
TitleCrowd == <<"T", "h", "i", "s", " ", "a", "a", "a", "a", " ", "a", "a", "a", "a", " ", "b", "b", "b", "b", " ", "b", "b", "b", "b", " ", "c", "c", "c", "c", " ", "c", "c", "c", "c", " ", "d", "d", "d", "d", " ", "d", "d", "d", "d", " ", "e", "e", "e", "e", " ", "e", "e", "e", "e", " ", "f", "f", "f", "f", " ", "f", "f", "f", "f", " ", "g", "g", "g", "g", " ", "g", "g", "g", "g", " ", "h", "h", "h", "h", " ", "h", "h", "h", "h", " ", "i", "i", "i", "i", " ", "i", "i", "i", "i", " ", "j", "j", "j", "j", " ", "j", "j", "j", "j", " ", "k", "k", "k", "k", " ", "k", "k", "k", "k", " ", "l", "l", "l", "l">>

HotPool ==
    {[title |-> <<"R", "o", "b", "o", "t", " ", "r", "o", "b", "o", "t", " ", "t", "h", "i", "s">>, url |-> "u", content |-> None],
     [title |-> <<"r", "o", "b", "o", "t", " ", "w", "i", "d", "g", "e", "t">>, url |-> "u",
      content |-> Some(<<"R", "o", "b", "o", "t", " ", "r", "o", "b", "o", "t", " ", "W", "I", "D", "G", "E", "T", " ", "t", "h", "e", " ", "w", "i", "t", "h">>)],
     [title |-> TitleCrowd, url |-> "u", content |-> None],
     [title |-> <<"r", "o", "b", "o", "t", "1", " ", "w", "i", "t", "h", "_", "x", " ", "d", "a", "t", "a">>, url |-> "u", content |-> Some(<<>>)],
     [title |-> <<"W", "i", "d", "g", "e", "t", " ", "W", "I", "D", "G", "E", "T", " ", "t", "h", "o", "s", "e">>, url |-> "",
      content |-> Some(<<"l", "l", "l", "l", " ", "T", "h", "e", "s", "e", " ", "d", "a", "t", "a">>)]}

\* The corpus as main() groups it: the first article under one source, the
\* others under the next.
HotGroups(arts) ==
    IF arts = <<>> THEN <<>>
    ELSE <<[key |-> "LEGO News", value |-> <<Head(arts)>>]>>
         \o (IF Len(arts) > 1 THEN <<[key |-> "Tech", value |-> Tail(arts)]>> ELSE <<>>)

HotInit ==
    /\ db = <<>>
    /\ now = hours_lookback + 1
    /\ hot_topic_threshold \in 1..HOT_TOPIC_THRESHOLD
    /\ dpc = "hot"
    /\ queryStatus = "ok"
    /\ articles = <<>>
    /\ by_source \in {HotGroups(arts) : arts \in SeqsUpTo(HotPool, MaxCorpus)}
    /\ news_by_source = <<>>
    /\ sumIdx = 0
    /\ ai_summaries = <<>>
    /\ calls = <<>>
    /\ hot_topics = <<>>
    /\ npc = "idle"
    /\ ComposeIdle
    /\ IngestIdle

HotNext == Hot

SpecHot == HotInit /\ [][HotNext]_vars

(***************************************************************************)
(* Claims about the HotTopicDetector.                                      *)
(***************************************************************************)
\* Every match of the token pattern in the corpus, stopwords included.
CorpusTokens == FindAll(JoinSpace(AllText(by_source)))
\* How often a token occurs among the tokens.
Frequency(tokens, w) == Cardinality({i \in 1..Len(tokens) : tokens[i] = w})

\* C9: detect_hot_topics returns at most 10 tokens, none twice; each occurs in
\* the corpus at least threshold times, is no stopword, and has fewer than 10
\* non-stopword tokens that are strictly more frequent.
C9_HotTopicsSound ==
    dpc = "page" =>
        LET tokens == CorpusTokens
            candidates == Range(tokens) \ stopwords
        IN  /\ Len(hot_topics) <= 10
            /\ \A i, j \in 1..Len(hot_topics) : hot_topics[i] = hot_topics[j] => i = j
            /\ \A i \in 1..Len(hot_topics) :
                  LET w == hot_topics[i]
                  IN  /\ Frequency(tokens, w) >= hot_topic_threshold
                      /\ w \notin stopwords
                      /\ Cardinality({v \in candidates :
                                        Frequency(tokens, v) > Frequency(tokens, w)}) < 10

\* C9 witness: ten hot topics are returned; the corpus has a stopword, a token
\* below the threshold, and an eleventh token at the threshold that is cut off
\* by the limit of ten.
C9_Witness ==
    /\ dpc = "page"
    /\ Len(hot_topics) = 10
    /\ LET tokens == CorpusTokens
           candidates == Range(tokens) \ stopwords
       IN  /\ \E v \in Range(tokens) : v \in stopwords
           /\ \E v \in candidates : Frequency(tokens, v) < hot_topic_threshold
           /\ \E v \in candidates :
                 /\ Frequency(tokens, v) >= hot_topic_threshold
                 /\ v \notin Range(hot_topics)

(***************************************************************************)
(* SpecSplit: create_digest_page applied to one source group whose summary *)
(* is made of short sentences, sentences that fill a block, and sentences  *)
(* longer than the ceiling.                                                *)
(***************************************************************************)
MaxSentences == 3      \* sentences of a summary

\* The sentences a summary is made of: short ones (one ending in a period, one
\* starting with a space), one of 1000 characters, one that just fits a block,
\* one longer than the ceiling, and one holding a paragraph break.
SentencePool ==
    {<<"A", "b">>, <<"C", "d", ".">>, <<" ", "z">>,
     Tuple(Rep("x", 1000)), Tuple(Rep("w", PARA_MAX - 3)), Tuple(Rep("y", PARA_MAX + 1)),
     <<"p", "\n", "\n", "q">>}

SummaryTexts ==
    {JoinWith(ss, <<".", " ">>) : ss \in SeqsUpTo(SentencePool, MaxSentences) \ {<<>>}}

SplitInit ==
    /\ db = <<>>
    /\ now = hours_lookback + 1
    /\ hot_topic_threshold = HOT_TOPIC_THRESHOLD
    /\ dpc = "page"
    /\ queryStatus = "ok"
    /\ articles = <<>>
    /\ by_source = <<[key |-> "LEGO News",
                      value |-> <<[title |-> TitleRobot, url |-> "u",
                                   content |-> Some(BodyText)]>>]>>
    /\ news_by_source = <<>>
    /\ sumIdx = 2
    /\ \E text \in SummaryTexts :
          /\ ai_summaries = <<[key |-> "LEGO News", value |-> text]>>
          /\ calls = <<[source |-> "LEGO News", prompt |-> SystemPrompt("LEGO News"),
                        reply |-> [raises |-> FALSE, content |-> Some(text)]]>>
    /\ hot_topics = <<>>
    /\ npc = "idle"
    /\ ComposeIdle
    /\ IngestIdle

SplitPage == \E fails \in BOOLEAN : CreatePage(fails)

SplitNext == SplitPage

SpecSplit == SplitInit /\ [][SplitNext]_vars

(***************************************************************************)
(* Claims about the paragraph splitting of the DigestComposer.             *)
(***************************************************************************)
PageComposed == dpc \in {"done", "failed"} /\ creates > 0
\* The contents of the summary paragraph blocks of a source's section, in order.
SummaryContents(source) ==
    LET blocks == SelectSeq(children,
                            LAMBDA b : b.part = "summary" /\ b.source = source)
    IN  [b \in 1..Len(blocks) |-> blocks[b].content]

\* C11: no paragraph block emitted for a summary has a content longer than the
\* ceiling of 1900 characters, whatever the summary, a paragraph with a single
\* sentence longer than 1900 characters included.
C11_BlocksWithinCeiling ==
    \A b \in 1..Len(children) :
        children[b].part = "summary" => Len(children[b].content) <= PARA_MAX

\* C12: when the summary is one paragraph longer than 1900 characters, the
\* blocks emitted for it, in emission order, joined with '. ' give back the
\* paragraph exactly (joined with ' ', for blocks that keep their final
\* period, is accepted as well).
C12_SplitReconstructs ==
    PageComposed =>
        \A i \in 1..Len(ai_summaries) :
            LET paragraphs == Paragraphs(ai_summaries[i].value)
                blocks == SummaryContents(ai_summaries[i].key)
            IN  (Len(paragraphs) = 1 /\ Len(paragraphs[1]) > PARA_MAX) =>
                    \/ JoinWith(blocks, <<".", " ">>) = paragraphs[1]
                    \/ JoinWith(blocks, <<" ">>) = paragraphs[1]

(***************************************************************************)
(* Claims about the digest run as a whole.                                 *)
(***************************************************************************)
RunEnded == dpc \in {"done", "failed"}
\* The window query returned a page of an allow-listed source.
SomeAllowListed == \E i \in 1..Len(articles) : articles[i].source \in AllowList
\* The summarization call made for a source failed.
CallFailed(source) ==
    \E c \in CallsFor(source) : calls[c].reply.raises \/ ~calls[c].reply.content.has

\* C13: a digest run whose window query returned an allow-listed article
\* invokes the page create exactly once, whatever every body fetch and every
\* summarization call did: the create is never invoked twice, a run that has
\* ended has invoked it, and in the page handed over the section of a source
\* whose call failed holds the 'AI summary unavailable.' paragraph, that of a
\* source without any body content the 'No article content available.' one.
C13_DigestCreatedOnce ==
    /\ creates <= 1
    /\ (creates = 1) => RunEnded
    /\ (RunEnded /\ SomeAllowListed) =>
          /\ creates = 1
          /\ \A i \in 1..Len(by_source) :
                LET source == by_source[i].key
                IN  /\ CallFailed(source) => SummaryContents(source) = <<UNAVAILABLE>>
                    /\ NoBody(by_source[i].value) => SummaryContents(source) = <<NO_CONTENT>>

\* C13 witness: a run over two sources has ended; every body fetch of the
\* second source failed and the summarization call of the first raised; the
\* create was invoked once, with both fallback paragraphs in the page.
C13_Witness ==
    /\ RunEnded
    /\ creates = 1
    /\ Len(by_source) = 2
    /\ CallFailed(by_source[1].key)
    /\ \E i \in 1..Len(by_source[2].value) : by_source[2].value[i].url # ""
    /\ \A i \in 1..Len(by_source[2].value) : ~by_source[2].value[i].content.has
    /\ SummaryContents(by_source[1].key) = <<UNAVAILABLE>>
    /\ SummaryContents(by_source[2].key) = <<NO_CONTENT>>

(***************************************************************************)
(* SpecNews: one run of news_digest.main, with create_if_no_articles on or *)
(* off, and one run of ai_digest.main, over the same database; the window  *)
(* queries and the page creates free to fail.                              *)
(***************************************************************************)
NewsInit ==
    /\ db \in SeqsUpTo(PagePool, MaxPages)
    /\ now \in Nows
    /\ hot_topic_threshold = HOT_TOPIC_THRESHOLD
    /\ dpc = "query"
    /\ queryStatus = "none"
    /\ articles = <<>>
    /\ by_source = <<>>
    /\ news_by_source = <<>>
    /\ sumIdx = 0
    /\ ai_summaries = <<>>
    /\ calls = <<>>
    /\ hot_topics = <<>>
    /\ npc = "query"
    /\ news_articles = <<>>
    /\ create_if_no_articles \in BOOLEAN
    /\ children = <<>>
    /\ creates = 0
    /\ news_children = <<>>
    /\ ncreates = 0
    /\ IngestIdle

NewsQueryStep == \E raises \in BOOLEAN : NewsQuery(raises)
NewsGroupStep == NewsGroup
NewsCreateStep == \E fails \in BOOLEAN : NewsCreate(fails)
\* The run of ai_digest.main, every body fetched and every summary given.
AiQueryStep == \E ok \in BOOLEAN : Query(ok)
AiGroupStep == Group([i \in 1..Len(articles) |-> Some(BodyText)])
AiSummarizeStep == Summarize([raises |-> FALSE, content |-> Some(BodyText)])
AiHotStep == Hot
AiPageStep == \E fails \in BOOLEAN : CreatePage(fails)

NewsNext ==
    \/ NewsQueryStep \/ NewsGroupStep \/ NewsCreateStep
    \/ AiQueryStep \/ AiGroupStep \/ AiSummarizeStep \/ AiHotStep \/ AiPageStep

SpecNews == NewsInit /\ [][NewsNext]_vars

(***************************************************************************)
(* Claims about a window without articles.                                 *)
(***************************************************************************)
\* No page of the database matches the window query.
NoneInWindow ==
    \A i \in 1..Len(db) : ~(DateAfter(db[i].scraped, Lookback) /\ db[i].source # NoSelect)
\* The window query of news_digest has answered (it did not raise).
NewsQueryAnswered == npc \in {"group", "page", "done"} \/ ncreates > 0

\* C14: when no page matches the window and create_if_no_articles is off, the
\* news_digest run invokes no page create and ends without an error; with the
\* flag on, the run that ends has invoked the create once. The ai_digest run,
\* which has no such flag, invokes no page create and ends without an error.
C14_NoDigestWithoutArticles ==
    NoneInWindow =>
        /\ (NewsQueryAnswered /\ ~create_if_no_articles) => (ncreates = 0 /\ npc = "done")
        /\ (NewsQueryAnswered /\ create_if_no_articles /\ npc \in {"done", "failed"}) =>
              ncreates = 1
        /\ dpc # "query" => (creates = 0 /\ dpc = "done")

\* C14 witness: the database holds pages, none in the window; the flag is off;
\* both runs have ended without a create and without an error.
C14_Witness ==
    /\ db # <<>>
    /\ NoneInWindow
    /\ ~create_if_no_articles
    /\ npc = "done" /\ ncreates = 0
    /\ dpc = "done" /\ creates = 0

(***************************************************************************)
(* Claims about the order of the composed digest.                          *)
(***************************************************************************)
\* The members of a sequence in the order in which they first occur.
FirstSeen(seq) ==
    LET firsts == {i \in 1..Len(seq) : \A j \in 1..(i - 1) : seq[j] # seq[i]}
    IN  [k \in 1..Cardinality(firsts) |-> seq[Nth(firsts, k)]]
\* The allow-listed sources of the pages of a query result, in result order.
ResultSources(pages) ==
    LET sources == [i \in 1..Len(pages) |-> pages[i].source]
    IN  FirstSeen(SelectSeq(sources, LAMBDA source : source \in AllowList))
\* The sources of the section headings of a page, in page order.
SectionSources(blocks) ==
    LET heads == SelectSeq(blocks, LAMBDA b : b.part = "heading")
    IN  [h \in 1..Len(heads) |-> heads[h].source]
\* Title, hot topics, statistics, then the sections.
PartRank(part) ==
    CASE part = "title" -> 0
      [] part = "hot" -> 1
      [] part = "stats" -> 2
      [] OTHER -> 3
\* Within a section: heading, summary paragraphs, link list, divider.
SectionRank(part) ==
    CASE part = "heading" -> 1
      [] part = "summary" -> 2
      [] part = "links" -> 3
      [] part = "link" -> 4
      [] OTHER -> 5
\* The blocks come part after part, and section after section, each section
\* in one piece that opens with its heading and closes with a block of
\* `closing`.
PartsInOrder(blocks, closing) ==
    \A b \in 1..(Len(blocks) - 1) :
        LET x == blocks[b]
            y == blocks[b + 1]
        IN  /\ PartRank(x.part) <= PartRank(y.part)
            /\ PartRank(y.part) = 3 =>
                  IF x.source = y.source
                  THEN SectionRank(x.part) <= SectionRank(y.part) /\ y.part # "heading"
                  ELSE y.part = "heading" /\ (PartRank(x.part) = 3 => x.part \in closing)

\* C15 (original statement): the sections of the digest are in the order of
\* the configured source list, and hot topics, statistics and sections come
\* in this order.
C15_SectionsInConfigOrder ==
    /\ creates = 1 =>
          /\ SectionSources(children)
                = SelectSeq(CONFIG_sources, LAMBDA s : s \in Range(SectionSources(children)))
          /\ PartsInOrder(children, {"divider"})
    /\ ncreates = 1 =>
          /\ SectionSources(news_children)
                = SelectSeq(CONFIG_sources,
                            LAMBDA s : s \in Range(SectionSources(news_children)))
          /\ PartsInOrder(news_children, {"heading", "link"})

\* C15 (amended): the sections of the digest are in the order in which their
\* sources first occur in the result of the window query, one section per
\* allow-listed source of the result; each section is in one piece: heading,
\* summary paragraphs, link list, divider; the hot topics block comes before
\* the statistics, which come before the first section.
C15_SectionsInResultOrder ==
    /\ creates = 1 =>
          /\ SectionSources(children) = ResultSources(articles)
          /\ PartsInOrder(children, {"divider"})
    /\ ncreates = 1 =>
          /\ SectionSources(news_children) = ResultSources(news_articles)
          /\ PartsInOrder(news_children, {"heading", "link"})

\* C15 witness: both pages were composed from a result with Data Science
\* before LEGO News, which the configured list has the other way round; the
\* ai_digest page has a hot topics block, and its sections and those of the
\* news_digest page are Data Science, then LEGO News.
C15_Witness ==
    /\ creates = 1
    /\ ncreates = 1
    /\ children[1].part = "hot"
    /\ SectionSources(children) = <<"Data Science", "LEGO News">>
    /\ SectionSources(news_children) = <<"Data Science", "LEGO News">>
    /\ CONFIG_sources[1] = "LEGO News"

====
